---- MODULE Spec2Model ----
(***************************************************************************)
(* Model of BookmarkStash, src/bookmark_manager.py: the BookmarkManager    *)
(* store (the in-memory list self.bookmarks and the JSON backing file) and *)
(* its add / delete operations with their save-and-roll-back logic.        *)
(*                                                                         *)
(* Strings are sequences of one-character strings, so that str.strip(),    *)
(* str.lower() and urllib.parse.urlparse() are computed character by       *)
(* character the way Python computes them.                                 *)
(***************************************************************************)
EXTENDS Integers, Sequences, FiniteSets, TLC

VARIABLES bookmarks, file, last

vars == <<bookmarks, file, last>>

(* ---------------------------------------------------------------------- *)
(* Bounds                                                                  *)
(* ---------------------------------------------------------------------- *)

\* largest number of records the collection is allowed to grow to
MaxLen == 3

\* largest number of records of the collections that are listed and searched
QueryMaxLen == 3

(* ---------------------------------------------------------------------- *)
(* Strings                                                                 *)
(* ---------------------------------------------------------------------- *)

\* str.isspace() over the alphabet of the model
IsSpace(c) == c = " "

\* the characters urlsplit accepts in a scheme (letters of the alphabet)
SchemeChars == {"a", "b", "c", "A", "B", "C"}

\* str.lower(), one character
LowerChar(c) ==
  CASE c = "A" -> "a"
    [] c = "B" -> "b"
    [] c = "C" -> "c"
    [] c = "T" -> "t"
    [] c = "S" -> "s"
    [] c = "G" -> "g"
    [] c = "H" -> "h"
    [] OTHER -> c

\* str.lower()
Lower(s) == [i \in 1..Len(s) |-> LowerChar(s[i])]

RECURSIVE LStrip(_)
\* str.lstrip(): drop leading whitespace
LStrip(s) ==
  IF s = <<>> THEN s
  ELSE IF IsSpace(Head(s)) THEN LStrip(Tail(s)) ELSE s

RECURSIVE RStrip(_)
\* str.rstrip(): drop trailing whitespace
RStrip(s) ==
  IF s = <<>> THEN s
  ELSE IF IsSpace(s[Len(s)]) THEN RStrip(SubSeq(s, 1, Len(s) - 1)) ELSE s

\* str.strip()
Strip(s) == RStrip(LStrip(s))

\* str.find(c): 1-based position of the first c in s, 0 when there is none
Find(s, c) ==
  IF \E i \in 1..Len(s) : s[i] = c
  THEN CHOOSE i \in 1..Len(s) : s[i] = c /\ \A j \in 1..(i - 1) : s[j] # c
  ELSE 0

(* ---------------------------------------------------------------------- *)
(* urllib.parse.urlparse as _validate_url uses it                          *)
(* ---------------------------------------------------------------------- *)

\* urlparse(url): leading spaces are stripped, the text before the first
\* ":" is the scheme when it is made of scheme characters only, and the
\* network location is what follows "//" up to the next "/"
urlparse(url) ==
  LET u == LStrip(url)
      i == Find(u, ":")
      hasScheme == i > 1 /\ \A j \in 1..(i - 1) : u[j] \in SchemeChars
      scheme == IF hasScheme THEN Lower(SubSeq(u, 1, i - 1)) ELSE <<>>
      rest == IF hasScheme THEN SubSeq(u, i + 1, Len(u)) ELSE u
      hasNetloc == Len(rest) >= 2 /\ rest[1] = "/" /\ rest[2] = "/"
      after == IF hasNetloc THEN SubSeq(rest, 3, Len(rest)) ELSE <<>>
      k == Find(after, "/")
      netloc == IF k = 0 THEN after ELSE SubSeq(after, 1, k - 1)
  IN [scheme |-> scheme, netloc |-> netloc]

\* _validate_url: all([result.scheme, result.netloc])
validate_url(url) ==
  LET result == urlparse(url)
  IN result.scheme # <<>> /\ result.netloc # <<>>

(* ---------------------------------------------------------------------- *)
(* Argument strings                                                        *)
(* ---------------------------------------------------------------------- *)

\* url arguments: a valid url, its upper-case variant, the same url followed
\* by a space, a url whose network location is one space, the same without
\* the space, and a text that is not a url
Urls ==
  { <<"a", ":", "/", "/", "b">>,
    <<"A", ":", "/", "/", "B">>,
    <<"a", ":", "/", "/", "b", " ">>,
    <<"a", ":", "/", "/", " ">>,
    <<"a", ":", "/", "/">>,
    <<"a", "b">> }

\* title arguments: a title, another one with a leading space, a blank one
Titles == { <<"t">>, <<" ", "s">>, <<" ">> }

\* tag arguments: a tag with a trailing space, a blank one
Tags == { <<"g", " ">>, <<" ">> }

\* identifiers of delete: the urls, titles in either case, blank and empty
Identifiers == Urls \cup { <<"t">>, <<"T">>, <<"s">>, <<" ">>, <<>> }

DeleteTypes == {"url", "title"}

(* ---------------------------------------------------------------------- *)
(* The backing file                                                        *)
(* ---------------------------------------------------------------------- *)

\* the file does not exist
AbsentFile == [state |-> "absent", recs |-> <<>>]

\* the file holds the complete JSON text of the collection b
CompleteFile(b) == [state |-> "complete", recs |-> b]

\* the file was truncated by open(..., "w") and the write stopped before the
\* end of the text: what is left is not valid JSON (its bytes are not tracked)
PartialFile == [state |-> "partial", recs |-> <<>>]

\* what one call of _save_bookmarks can do: write the whole text, fail in
\* open() before the file is touched, or fail after open() truncated it
SaveOutcomes == {"ok", "open_failed", "write_failed"}

\* _save_bookmarks: open(data_file, "w") truncates the file, json.dump writes
\* the collection; an IOError at either point is caught and reported as False
save_bookmarks(b, f, o) ==
  CASE o = "ok" -> [ok |-> TRUE, file |-> CompleteFile(b)]
    [] o = "open_failed" -> [ok |-> FALSE, file |-> f]
    [] OTHER -> [ok |-> FALSE, file |-> PartialFile]

\* _load_bookmarks: [] when the file is absent or is not valid JSON
load_bookmarks(f) ==
  IF f.state = "complete" THEN f.recs ELSE <<>>

(* ---------------------------------------------------------------------- *)
(* Lookups                                                                 *)
(* ---------------------------------------------------------------------- *)

\* _find_bookmark_by_url: index of the first record whose url equals url
\* case-insensitively, 0 for None
find_bookmark_by_url(b, url) ==
  IF \E i \in 1..Len(b) : Lower(b[i].url) = Lower(url)
  THEN CHOOSE i \in 1..Len(b) :
         /\ Lower(b[i].url) = Lower(url)
         /\ \A j \in 1..(i - 1) : Lower(b[j].url) # Lower(url)
  ELSE 0

RECURSIVE IndicesFrom(_, _, _)
\* the loop of _find_bookmarks_by_title from position i on
IndicesFrom(b, title_lower, i) ==
  IF i > Len(b) THEN <<>>
  ELSE IF Lower(b[i].title) = title_lower
       THEN <<i>> \o IndicesFrom(b, title_lower, i + 1)
       ELSE IndicesFrom(b, title_lower, i + 1)

\* _find_bookmarks_by_title: the indices, ascending, of the records whose
\* title equals title case-insensitively
find_bookmarks_by_title(b, title) == IndicesFrom(b, Lower(title), 1)

(* ---------------------------------------------------------------------- *)
(* add_bookmark                                                            *)
(* ---------------------------------------------------------------------- *)

\* the record add_bookmark builds from its arguments
new_bookmark(url, title, tag) ==
  [url |-> Strip(url), title |-> Strip(title), tag |-> Strip(tag)]

\* pop() left out: the appended record stays
pop_forgotten(b) == b

\* self.bookmarks.pop()
pop(b) == SubSeq(b, 1, Len(b) - 1)

\* the check of add_bookmark that rejects the arguments, "none" when they
\* pass all four
add_rejection(b, url, title, tag) ==
  IF ~validate_url(url) THEN "InvalidUrl"
  ELSE IF find_bookmark_by_url(b, url) # 0 THEN "DuplicateUrl"
  ELSE IF Strip(title) = <<>> THEN "EmptyTitle"
  ELSE IF Strip(tag) = <<>> THEN "EmptyTag"
  ELSE "none"

\* add_bookmark with the tag check placed after the append: a blank tag is
\* reported, but the record is already in the collection
add_bookmark_late_tag_check(b, f, url, title, tag, o) ==
  LET rejection == add_rejection(b, url, title, tag)
      appended == Append(b, new_bookmark(url, title, tag))
      saved == save_bookmarks(appended, f, o)
  IN IF rejection = "EmptyTag"
     THEN [bookmarks |-> appended, file |-> f, status |-> rejection,
           save |-> "none", count |-> 0]
     ELSE IF rejection # "none"
     THEN [bookmarks |-> b, file |-> f, status |-> rejection,
           save |-> "none", count |-> 0]
     ELSE IF saved.ok
     THEN [bookmarks |-> appended, file |-> saved.file, status |-> "ok",
           save |-> o, count |-> 0]
     ELSE [bookmarks |-> pop(appended), file |-> saved.file,
           status |-> "SaveFailure", save |-> o, count |-> 0]

\* add_bookmark on the collection b and the file f, the save behaving as o
add_bookmark(b, f, url, title, tag, o) ==
  LET rejection == add_rejection(b, url, title, tag)
      appended == Append(b, new_bookmark(url, title, tag))
      saved == save_bookmarks(appended, f, o)
  IN IF rejection # "none"
     THEN [bookmarks |-> b, file |-> f, status |-> rejection,
           save |-> "none", count |-> 0]
     ELSE IF saved.ok
     THEN [bookmarks |-> appended, file |-> saved.file, status |-> "ok",
           save |-> o, count |-> 0]
     ELSE [bookmarks |-> pop(appended), file |-> saved.file,
           status |-> "SaveFailure", save |-> o, count |-> 0]

(* ---------------------------------------------------------------------- *)
(* delete_bookmark                                                         *)
(* ---------------------------------------------------------------------- *)

\* bookmarks_to_remove: the records delete_bookmark identifies
bookmarks_to_remove(b, identifier, delete_type) ==
  IF delete_type = "url"
  THEN LET index == find_bookmark_by_url(b, identifier)
       IN IF index # 0 THEN <<b[index]>> ELSE <<>>
  ELSE LET indices == find_bookmarks_by_title(b, identifier)
       IN [n \in 1..Len(indices) |-> b[indices[n]]]

\* is_deleted comparing titles instead of urls
is_deleted_by_title(bookmark, to_remove) ==
  \E n \in 1..Len(to_remove) :
    Lower(bookmark.title) = Lower(to_remove[n].title)

\* is_deleted: the record's url equals the url of a record to remove
is_deleted(bookmark, to_remove) ==
  \E n \in 1..Len(to_remove) : Lower(bookmark.url) = Lower(to_remove[n].url)

RECURSIVE Reverse(_)
\* the sequence s back to front
Reverse(s) == IF s = <<>> THEN s ELSE Append(Reverse(Tail(s)), Head(s))

\* new_bookmarks built with insert(0, bookmark) instead of append(bookmark)
new_bookmarks_insert_front(b, to_remove) ==
  Reverse(SelectSeq(b, LAMBDA bookmark : ~is_deleted(bookmark, to_remove)))

\* new_bookmarks: the collection without the records to remove
new_bookmarks(b, to_remove) ==
  SelectSeq(b, LAMBDA bookmark : ~is_deleted(bookmark, to_remove))

\* the revert left out: the shortened collection stays
revert_forgotten(original_bookmarks, new) == new

\* the collection delete_bookmark keeps when its save failed
revert(original_bookmarks, new) == original_bookmarks

\* the check of delete_bookmark that rejects the arguments, "none" when
\* they pass
delete_rejection(b, identifier, delete_type) ==
  IF Strip(identifier) = <<>> THEN "EmptyIdentifier"
  ELSE IF bookmarks_to_remove(b, identifier, delete_type) = <<>>
       THEN "NotFound"
       ELSE "none"

\* delete_bookmark on the collection b and the file f, the save behaving as o
delete_bookmark(b, f, identifier, delete_type, o) ==
  LET rejection == delete_rejection(b, identifier, delete_type)
      to_remove == bookmarks_to_remove(b, identifier, delete_type)
      new == new_bookmarks(b, to_remove)
      saved == save_bookmarks(new, f, o)
  IN IF rejection # "none"
     THEN [bookmarks |-> b, file |-> f, status |-> rejection,
           save |-> "none", count |-> 0]
     ELSE IF saved.ok
     THEN [bookmarks |-> new, file |-> saved.file, status |-> "ok",
           save |-> o, count |-> Len(b) - Len(new)]
     ELSE [bookmarks |-> revert(b, new), file |-> saved.file,
           status |-> "SaveFailure", save |-> o, count |-> 0]

(* ---------------------------------------------------------------------- *)
(* list_bookmarks                                                          *)
(* ---------------------------------------------------------------------- *)

\* bookmarks_to_show of list_bookmarks: the filter applies only when both
\* filter_type and filter_value are truthy ("none" stands for None)
list_bookmarks(b, filter_type, filter_value) ==
  IF filter_type # "none" /\ filter_value # <<>>
  THEN SelectSeq(b, LAMBDA bookmark :
         \/ filter_type = "title"
            /\ Lower(bookmark.title) = Lower(filter_value)
         \/ filter_type = "tag"
            /\ Lower(bookmark.tag) = Lower(filter_value))
  ELSE b

(* ---------------------------------------------------------------------- *)
(* search_bookmarks                                                        *)
(* ---------------------------------------------------------------------- *)

\* the Python test "q in s" on strings
Contains(s, q) ==
  \E i \in 0..(Len(s) - Len(q)) : SubSeq(s, i + 1, i + Len(q)) = q

RECURSIVE TitleSearchFrom(_, _, _)
\* the loop of the title mode from position i on: print the url of the
\* first record whose lowered title contains query_lower and return
TitleSearchFrom(b, query_lower, i) ==
  IF i > Len(b) THEN <<>>
  ELSE IF Contains(Lower(b[i].title), query_lower)
       THEN <<b[i].url>>
       ELSE TitleSearchFrom(b, query_lower, i + 1)

\* the tag mode that compares without lowering the tag
TagSearchFrom_case_sensitive(b, query_lower, i) ==
  LET hits == SelectSeq(b, LAMBDA bookmark :
                Contains(bookmark.tag, query_lower))
  IN [n \in 1..Len(hits) |-> hits[n].title]

RECURSIVE TagSearchFrom(_, _, _)
\* the loop of the tag mode from position i on: collect the title of every
\* record whose lowered tag contains query_lower
TagSearchFrom(b, query_lower, i) ==
  IF i > Len(b) THEN <<>>
  ELSE IF Contains(Lower(b[i].tag), query_lower)
       THEN <<b[i].title>> \o TagSearchFrom(b, query_lower, i + 1)
       ELSE TagSearchFrom(b, query_lower, i + 1)

\* search_bookmarks that goes on after the first title match
search_bookmarks_all_titles(b, query, search_type) ==
  IF Strip(query) = <<>>
  THEN [status |-> "EmptyQuery", printed |-> <<>>]
  ELSE IF search_type = "title"
  THEN LET hits == SelectSeq(b, LAMBDA bookmark :
                     Contains(Lower(bookmark.title), Lower(query)))
       IN [status |-> "ok", printed |-> [n \in 1..Len(hits) |-> hits[n].url]]
  ELSE [status |-> "ok", printed |-> TagSearchFrom(b, Lower(query), 1)]

\* search_bookmarks: the lines it prints
search_bookmarks(b, query, search_type) ==
  IF Strip(query) = <<>>
  THEN [status |-> "EmptyQuery", printed |-> <<>>]
  ELSE IF search_type = "title"
  THEN [status |-> "ok", printed |-> TitleSearchFrom(b, Lower(query), 1)]
  ELSE [status |-> "ok", printed |-> TagSearchFrom(b, Lower(query), 1)]

(* ---------------------------------------------------------------------- *)
(* list_tags, list_titles                                                  *)
(* ---------------------------------------------------------------------- *)

\* ord(c): the code point of the character
Ord(c) ==
  CASE c = " " -> 32
    [] c = "/" -> 47
    [] c = ":" -> 58
    [] c = "A" -> 65
    [] c = "B" -> 66
    [] c = "C" -> 67
    [] c = "G" -> 71
    [] c = "H" -> 72
    [] c = "S" -> 83
    [] c = "T" -> 84
    [] c = "a" -> 97
    [] c = "b" -> 98
    [] c = "c" -> 99
    [] c = "g" -> 103
    [] c = "h" -> 104
    [] c = "s" -> 115
    [] OTHER -> 116

RECURSIVE StrLess(_, _)
\* the order of Python strings: s < t, code point by code point
StrLess(s, t) ==
  IF t = <<>> THEN FALSE
  ELSE IF s = <<>> THEN TRUE
  ELSE IF Ord(Head(s)) # Ord(Head(t)) THEN Ord(Head(s)) < Ord(Head(t))
  ELSE StrLess(Tail(s), Tail(t))

RECURSIVE sorted(_)
\* sorted(set): the strings of S in ascending order
sorted(S) ==
  IF S = {} THEN <<>>
  ELSE LET least == CHOOSE x \in S : \A y \in S \ {x} : StrLess(x, y)
       IN <<least>> \o sorted(S \ {least})

\* list_tags that takes strings differing only in case for the same
list_tags_case_folded(b) ==
  IF b = <<>>
  THEN [status |-> "NoBookmarks", printed |-> <<>>]
  ELSE [status |-> "ok",
        printed |-> sorted({Lower(b[i].tag) : i \in 1..Len(b)})]

\* list_tags: the lines it prints
list_tags(b) ==
  IF b = <<>>
  THEN [status |-> "NoBookmarks", printed |-> <<>>]
  ELSE [status |-> "ok", printed |-> sorted({b[i].tag : i \in 1..Len(b)})]

\* list_titles: the lines it prints
list_titles(b) ==
  IF b = <<>>
  THEN [status |-> "NoBookmarks", printed |-> <<>>]
  ELSE [status |-> "ok", printed |-> sorted({b[i].title : i \in 1..Len(b)})]

(* ---------------------------------------------------------------------- *)
(* The state machine                                                       *)
(* ---------------------------------------------------------------------- *)

\* a fresh manager on a machine without a backing file
Init ==
  /\ bookmarks = <<>>
  /\ file = AbsentFile
  /\ last = [op |-> "init", mode |-> "none", status |-> "ok",
             save |-> "none", count |-> 0]

\* one call of add_bookmark
Add(url, title, tag, o) ==
  /\ Len(bookmarks) < MaxLen
  /\ LET r == add_bookmark(bookmarks, file, url, title, tag, o)
     IN /\ bookmarks' = r.bookmarks
        /\ file' = r.file
        /\ last' = [op |-> "add", mode |-> "none", status |-> r.status,
                    save |-> r.save, count |-> r.count]

\* one call of delete_bookmark
Delete(identifier, delete_type, o) ==
  LET r == delete_bookmark(bookmarks, file, identifier, delete_type, o)
  IN /\ bookmarks' = r.bookmarks
     /\ file' = r.file
     /\ last' = [op |-> "delete", mode |-> delete_type, status |-> r.status,
                 save |-> r.save, count |-> r.count]

\* the next invocation of the program: BookmarkManager.__init__ loads the file
Load ==
  /\ bookmarks' = load_bookmarks(file)
  /\ file' = file
  /\ last' = [op |-> "load", mode |-> "none",
              status |-> IF file.state = "partial" THEN "LoadFailure" ELSE "ok",
              save |-> "none", count |-> 0]

\* the ways the save of an operation can go: none when the operation
\* returns before it saves
SavesOf(returns_early) == IF returns_early THEN {"none"} ELSE SaveOutcomes

AddStep ==
  \E url \in Urls, title \in Titles, tag \in Tags :
    \E o \in SavesOf(add_rejection(bookmarks, url, title, tag) # "none") :
      Add(url, title, tag, o)

DeleteStep ==
  \E identifier \in Identifiers, delete_type \in DeleteTypes :
    \E o \in SavesOf(delete_rejection(bookmarks, identifier, delete_type)
                       # "none") :
      Delete(identifier, delete_type, o)

Next == AddStep \/ DeleteStep \/ Load

Spec == Init /\ [][Next]_vars

(* ---------------------------------------------------------------------- *)
(* Listing and searching a collection                                      *)
(* ---------------------------------------------------------------------- *)

\* records with different urls; titles and tags repeat, differ in case only,
\* or contain one another
QueryRecords ==
  { [url |-> <<"a", ":", "/", "/", "a">>, title |-> <<"a", "b">>,
     tag |-> <<"b">>],
    [url |-> <<"a", ":", "/", "/", "b">>, title |-> <<"B">>,
     tag |-> <<"a">>],
    [url |-> <<"a", ":", "/", "/", "c">>, title |-> <<"b", " ", "a">>,
     tag |-> <<"B">>],
    [url |-> <<"b", ":", "/", "/", "a">>, title |-> <<"A", "B">>,
     tag |-> <<"a", " ", "b">>],
    [url |-> <<"b", ":", "/", "/", "b">>, title |-> <<"c">>,
     tag |-> <<"b">>] }

\* the collections of at most QueryMaxLen of these records, in any order
QueryCollections ==
  UNION { { b \in [1..n -> QueryRecords] :
              \A i, j \in 1..n : i # j => b[i] # b[j] } :
          n \in 0..QueryMaxLen }

\* queries of search: in either case, with a trailing space, blank, empty
Queries ==
  { <<"b">>, <<"A">>, <<"a", "b">>, <<"b", " ">>, <<"c", "c">>, <<" ">>,
    <<>> }

SearchTypes == {"title", "tag"}

\* filter values of list: titles and tags in either case, and the empty
\* string
FilterValues == { <<"b">>, <<"A", "b">>, <<"a">>, <<"c", "c">>, <<>> }

FilterTypes == {"none", "title", "tag"}

\* a manager that has loaded one of the collections from its file
QueryInit ==
  /\ bookmarks \in QueryCollections
  /\ file = CompleteFile(bookmarks)
  /\ last = [op |-> "init", mode |-> "none", arg |-> <<>>, status |-> "ok",
             printed |-> <<>>]

\* one call of search_bookmarks
Search(query, search_type) ==
  /\ UNCHANGED <<bookmarks, file>>
  /\ LET r == search_bookmarks(bookmarks, query, search_type)
     IN last' = [op |-> "search", mode |-> search_type, arg |-> query,
                 status |-> r.status, printed |-> r.printed]

\* one call of list_bookmarks: the records it shows
List(filter_type, filter_value) ==
  /\ UNCHANGED <<bookmarks, file>>
  /\ last' = [op |-> "list", mode |-> filter_type, arg |-> filter_value,
              status |-> "ok",
              printed |-> list_bookmarks(bookmarks, filter_type,
                                         filter_value)]

\* one call of list_tags
ListTags ==
  /\ UNCHANGED <<bookmarks, file>>
  /\ LET r == list_tags(bookmarks)
     IN last' = [op |-> "tags", mode |-> "none", arg |-> <<>>,
                 status |-> r.status, printed |-> r.printed]

\* one call of list_titles
ListTitles ==
  /\ UNCHANGED <<bookmarks, file>>
  /\ LET r == list_titles(bookmarks)
     IN last' = [op |-> "titles", mode |-> "none", arg |-> <<>>,
                 status |-> r.status, printed |-> r.printed]

SearchStep ==
  \E query \in Queries, search_type \in SearchTypes :
    Search(query, search_type)

ListStep ==
  \E filter_type \in FilterTypes, filter_value \in FilterValues :
    List(filter_type, filter_value)

QueryNext == SearchStep \/ ListStep \/ ListTags \/ ListTitles

SpecQuery == QueryInit /\ [][QueryNext]_vars

(* ---------------------------------------------------------------------- *)
(* main: one command per process                                           *)
(* ---------------------------------------------------------------------- *)

\* the file exists but open(..., "r") raises an IOError
UnreadableFile == [state |-> "unreadable", recs |-> <<>>]

\* the file holds text that is not JSON
CorruptFile == [state |-> "corrupt", recs |-> <<>>]

\* the file holds bytes that are not UTF-8
UndecodableFile == [state |-> "undecodable", recs |-> <<>>]

\* _load_bookmarks raises: reading bytes that are not UTF-8 raises
\* UnicodeDecodeError, which is neither a JSONDecodeError nor an IOError
load_raises(f) == f.state = "undecodable"

\* _load_bookmarks prints "Error loading bookmarks file"
load_diagnostic(f) == f.state \in {"unreadable", "corrupt", "partial"}

\* show_stats: the figures it prints
show_stats(b) ==
  IF b = <<>>
  THEN [status |-> "NoBookmarks", total |-> 0, unique_tags |-> 0]
  ELSE [status |-> "ok", total |-> Len(b),
        unique_tags |-> Cardinality({b[i].tag : i \in 1..Len(b)})]

\* the value of an option that was not given
None == <<"None">>

\* the truth value Python gives an option value
Truthy(x) == x # None /\ x # <<>>

\* the namespaces parse_args returns for the seven commands
Invocations ==
  { [command |-> "add", url |-> url, title |-> title, tag |-> tag,
     query |-> None] :
      url \in { <<"a", ":", "/", "/", "b">>, <<"a", ":", "/", "/", "c">>,
                <<"a", "b">> },
      title \in { <<"t">>, <<" ">> },
      tag \in { <<"g">>, <<" ">> } }
  \cup
  { [command |-> "list", url |-> None, title |-> title, tag |-> tag,
     query |-> None] :
      title \in { None, <<>>, <<"T">> }, tag \in { None, <<"g">> } }
  \cup
  { [command |-> "search", url |-> None, title |-> None, tag |-> tag,
     query |-> query] :
      tag \in { <<"True">>, <<>> }, query \in { <<"t">>, <<" ">> } }
  \cup
  { [command |-> "delete", url |-> url, title |-> None, tag |-> None,
     query |-> None] :
      url \in { <<"a", ":", "/", "/", "b">>, <<"a", "b">>, <<" ">>, <<>> } }
  \cup
  { [command |-> "delete", url |-> None, title |-> title, tag |-> None,
     query |-> None] :
      title \in { <<"t">>, <<>> } }
  \cup
  { [command |-> c, url |-> None, title |-> None, tag |-> None,
     query |-> None] : c \in {"tags", "titles", "stats"} }

\* what happens to the process while the command runs: nothing, Ctrl-C
\* before the command writes, Ctrl-C while _save_bookmarks is writing, or an
\* exception that no operation handles
Events == {"none", "interrupt_before", "interrupt_in_save", "error"}

\* the result of a Store operation that changes nothing
Unchanged(b, f, mode, status) ==
  [ops |-> 1, mode |-> mode, bookmarks |-> b, file |-> f, status |-> status,
   save |-> "none"]

\* the constructor and the if/elif chain of main: the Store operation the
\* command invokes, none when the load raised
dispatch(inv, b, f, o) ==
  CASE load_raises(f) ->
         [ops |-> 0, mode |-> "none", bookmarks |-> <<>>, file |-> f,
          status |-> "LoadCrash", save |-> "none"]
    [] inv.command = "add" ->
         LET r == add_bookmark(b, f, inv.url, inv.title, inv.tag, o)
         IN [ops |-> 1, mode |-> "none", bookmarks |-> r.bookmarks,
             file |-> r.file, status |-> r.status, save |-> r.save]
    [] inv.command = "list" ->
         IF Truthy(inv.title) THEN Unchanged(b, f, "title", "ok")
         ELSE IF Truthy(inv.tag) THEN Unchanged(b, f, "tag", "ok")
         ELSE Unchanged(b, f, "none", "ok")
    [] inv.command = "search" ->
         LET search_type == IF Truthy(inv.tag) THEN "tag" ELSE "title"
         IN Unchanged(b, f, search_type,
                      search_bookmarks(b, inv.query, search_type).status)
    [] inv.command = "delete" ->
         IF Truthy(inv.url) \/ Truthy(inv.title)
         THEN LET delete_type == IF Truthy(inv.url) THEN "url" ELSE "title"
                  identifier == IF Truthy(inv.url) THEN inv.url
                                ELSE inv.title
                  r == delete_bookmark(b, f, identifier, delete_type, o)
              IN [ops |-> 1, mode |-> delete_type, bookmarks |-> r.bookmarks,
                  file |-> r.file, status |-> r.status, save |-> r.save]
         ELSE [ops |-> 0, mode |-> "none", bookmarks |-> b, file |-> f,
               status |-> "NoOperation", save |-> "none"]
    [] inv.command = "tags" -> Unchanged(b, f, "none", list_tags(b).status)
    [] inv.command = "titles" ->
         Unchanged(b, f, "none", list_titles(b).status)
    [] OTHER -> Unchanged(b, f, "none", show_stats(b).status)

\* the exit code that is non-zero for every command that reports a failure
exit_code_on_failure(event, status) ==
  IF event # "none" \/ status \notin {"ok", "NoBookmarks"} THEN 1 ELSE 0

\* the exit code of the process: sys.exit(1) in the two handlers of main, 1
\* for the exception that escapes the constructor, 0 otherwise
exit_code(event, status) ==
  IF event # "none" \/ status = "LoadCrash" THEN 1 ELSE 0

\* the try block of main around the operation whose result is d, on the
\* collection b loaded from the file f, the process meeting event
run(inv, b, f, d, event) ==
  LET saves == /\ inv.command \in {"add", "delete"}
               /\ d.status \in {"ok", "SaveFailure"}
      status == CASE d.status = "LoadCrash" -> "LoadCrash"
                  [] event = "none" -> d.status
                  [] event = "error" -> "UnexpectedError"
                  [] OTHER -> "Interrupted"
  IN [ops |-> d.ops, mode |-> d.mode, saves |-> saves,
      bookmarks |-> IF event = "interrupt_before" THEN b ELSE d.bookmarks,
      file |-> CASE event = "interrupt_before" -> f
                 [] event = "interrupt_in_save" /\ saves -> PartialFile
                 [] OTHER -> d.file,
      status |-> status,
      save |-> CASE event = "interrupt_before" -> "none"
                 [] event = "interrupt_in_save" /\ saves -> "interrupted"
                 [] OTHER -> d.save,
      diag |-> load_diagnostic(f),
      exit |-> exit_code(event, status)]

\* main on the file f: the command inv, its save behaving as o (for a
\* command interrupted while it saves, o is "ok": the collection being
\* written is the one a complete save would have left), the process meeting
\* event
main(inv, f, o, event) ==
  run(inv, load_bookmarks(f), f,
      dispatch(inv, load_bookmarks(f), f, o), event)

\* the backing file before the first run: absent, or left by something else
CliInit ==
  /\ bookmarks = <<>>
  /\ file \in {AbsentFile, UnreadableFile, CorruptFile, UndecodableFile}
  /\ last = [op |-> "init", mode |-> "none", status |-> "ok",
             save |-> "none", event |-> "none", store_ops |-> 0,
             diag |-> FALSE, exit |-> 0]

\* one run of the program; the save outcome o is "none" exactly when the
\* command does not reach _save_bookmarks
Invoke(inv, o, event) ==
  \E r \in {main(inv, file, o, event)} :
    /\ r.saves <=> o # "none"
    /\ event = "interrupt_in_save" => r.saves
    /\ event \in {"interrupt_before", "interrupt_in_save"}
         => o \in {"none", "ok"}
    /\ bookmarks' = r.bookmarks
    /\ file' = r.file
    /\ last' = [op |-> inv.command, mode |-> r.mode, status |-> r.status,
                save |-> r.save, event |-> event, store_ops |-> r.ops,
                diag |-> r.diag, exit |-> r.exit]

CliNext ==
  \E inv \in Invocations, event \in Events, o \in SaveOutcomes \cup {"none"} :
    Invoke(inv, o, event)

SpecCli == CliInit /\ [][CliNext]_vars

(* ---------------------------------------------------------------------- *)
(* Properties                                                              *)
(* ---------------------------------------------------------------------- *)

\* the save of the last operation failed
SaveFailed(l) == l.save \in {"open_failed", "write_failed"}

\* the statuses with which add_bookmark rejects its arguments
AddRejections == {"InvalidUrl", "DuplicateUrl", "EmptyTitle", "EmptyTag"}

\* number of positions of b that hold the record r
Count(b, r) == Cardinality({i \in 1..Len(b) : b[i] = r})

\* b without the record at position i
RemoveAt(b, i) == SubSeq(b, 1, i - 1) \o SubSeq(b, i + 1, Len(b))

\* the record satisfies the constraints of the data model
ValidRecord(r) ==
  /\ validate_url(r.url)
  /\ Strip(r.title) # <<>>
  /\ Strip(r.tag) # <<>>

\* C1: no two records of the in-memory collection have urls that are equal
\* when compared case-insensitively.
C1_UniqueUrls ==
  \A i, j \in 1..Len(bookmarks) :
    i # j => Lower(bookmarks[i].url) # Lower(bookmarks[j].url)

\* C2: after every completed add or delete, successful or not, the
\* in-memory collection equals what the backing file holds.
C2_MemoryEqualsFile ==
  last.op \in {"add", "delete"} => load_bookmarks(file) = bookmarks

\* C3: when the save attempted by add fails, add reports failure and the
\* in-memory collection is exactly the collection before the call.
C3_AddSaveFailureRestores ==
  [][(last'.op = "add" /\ SaveFailed(last'))
       => (last'.status = "SaveFailure" /\ bookmarks' = bookmarks)]_vars

\* an add whose save failed after truncating the file, on a collection that
\* holds records
C3_Witness ==
  /\ last.op = "add"
  /\ last.status = "SaveFailure"
  /\ last.save = "write_failed"
  /\ Len(bookmarks) >= 2

\* C4: when the save attempted by a delete that matched a record fails,
\* delete reports failure and the in-memory collection is exactly the
\* collection before the call.
C4_DeleteSaveFailureRestores ==
  [][(last'.op = "delete" /\ SaveFailed(last'))
       => (last'.status = "SaveFailure" /\ bookmarks' = bookmarks)]_vars

\* a delete by title whose save failed, all records still in the collection
C4_Witness ==
  /\ last.op = "delete"
  /\ last.mode = "title"
  /\ last.status = "SaveFailure"
  /\ Len(bookmarks) = MaxLen

\* C5: every record of the collection and of the backing file has a url
\* that validate_url accepts and a title and a tag that are non-empty after
\* trimming.
C5_RecordsValid ==
  /\ \A i \in 1..Len(bookmarks) : ValidRecord(bookmarks[i])
  /\ \A i \in 1..Len(file.recs) : ValidRecord(file.recs[i])

\* C6: when add succeeds, the unfiltered list afterwards contains exactly
\* one record whose fields are the trimmed url, title and tag.
C6_AddedExactlyOnce ==
  [][\A url \in Urls, title \in Titles, tag \in Tags :
       (Add(url, title, tag, "ok") /\ last'.status = "ok")
         => Count(list_bookmarks(bookmarks', "none", <<>>),
                  new_bookmark(url, title, tag)) = 1]_vars

\* C7: an add whose url argument equals the url of a stored record
\* case-insensitively is rejected with DuplicateUrl.
C7_SecondAddRejected ==
  [][\A url \in Urls :
       (\E i \in 1..Len(bookmarks) : Lower(bookmarks[i].url) = Lower(url))
         => \A title \in Titles, tag \in Tags, o \in SaveOutcomes \cup {"none"} :
              Add(url, title, tag, o) => last'.status = "DuplicateUrl"]_vars

\* C8: an add that is rejected (InvalidUrl, DuplicateUrl, EmptyTitle or
\* EmptyTag) leaves the collection and the backing file unchanged and
\* attempts no save.
C8_RejectedAddChangesNothing ==
  [][(last'.op = "add" /\ last'.status \in AddRejections)
       => (bookmarks' = bookmarks /\ file' = file /\ last'.save = "none")]_vars

\* an add rejected for its blank tag, on a collection that holds records and
\* is saved in the file
C8_Witness ==
  /\ last.op = "add"
  /\ last.status = "EmptyTag"
  /\ bookmarks # <<>>
  /\ file = CompleteFile(bookmarks)

\* C9: delete in url mode with an identifier that is not blank and a
\* successful save removes exactly one record, the one whose url matches
\* case-insensitively, and keeps every other record; when no record matches
\* it reports NotFound and leaves collection and file unchanged.
C9_DeleteByUrlRemovesOne ==
  [][\A identifier \in Identifiers :
       (Delete(identifier, "url", "ok") /\ Strip(identifier) # <<>>)
         => IF \E i \in 1..Len(bookmarks) :
                 Lower(bookmarks[i].url) = Lower(identifier)
            THEN /\ last'.status = "ok"
                 /\ \E i \in 1..Len(bookmarks) :
                      /\ Lower(bookmarks[i].url) = Lower(identifier)
                      /\ bookmarks' = RemoveAt(bookmarks, i)
            ELSE /\ last'.status = "NotFound"
                 /\ bookmarks' = bookmarks
                 /\ file' = file]_vars

\* C10: delete in title mode with a successful save removes exactly the
\* records whose title equals the identifier case-insensitively, and the
\* count it reports is the number of those records.
C10_DeleteByTitleRemovesMatches ==
  [][\A identifier \in Identifiers :
       (Delete(identifier, "title", "ok") /\ last'.status = "ok")
         => /\ bookmarks' =
                 SelectSeq(bookmarks, LAMBDA bookmark :
                   Lower(bookmark.title) # Lower(identifier))
            /\ last'.count =
                 Cardinality({i \in 1..Len(bookmarks) :
                   Lower(bookmarks[i].title) = Lower(identifier)})]_vars

RECURSIVE IsSubsequence(_, _)
\* s is t with some positions left out, the others in the same order
IsSubsequence(s, t) ==
  IF s = <<>> THEN TRUE
  ELSE IF t = <<>> THEN FALSE
  ELSE \/ Head(s) = Head(t) /\ IsSubsequence(Tail(s), Tail(t))
       \/ IsSubsequence(s, Tail(t))

\* C19: a successful add places the new record last and leaves the earlier
\* records unchanged in value and position; a successful delete leaves the
\* remaining records unchanged in value and in their relative order.
C19_InsertionOrderKept ==
  [][/\ (last'.op = "add" /\ last'.status = "ok")
          => /\ Len(bookmarks') = Len(bookmarks) + 1
             /\ SubSeq(bookmarks', 1, Len(bookmarks)) = bookmarks
     /\ (last'.op = "delete" /\ last'.status = "ok")
          => /\ Len(bookmarks') < Len(bookmarks)
             /\ IsSubsequence(bookmarks', bookmarks)]_vars

\* a delete that left two different records behind
C19_Witness ==
  /\ last.op = "delete"
  /\ last.status = "ok"
  /\ Len(bookmarks) >= 2
  /\ bookmarks[1] # bookmarks[2]

\* the url arguments with which the add that has just succeeded can have
\* been called: they trim to the url of the last record and pass the checks
\* of add on the collection before it
JustAddedWith(url) ==
  /\ last.op = "add"
  /\ last.status = "ok"
  /\ Strip(url) = bookmarks[Len(bookmarks)].url
  /\ add_rejection(pop(bookmarks), url, bookmarks[Len(bookmarks)].title,
                   bookmarks[Len(bookmarks)].tag) = "none"

\* C20 as stated: after add(u, title, tag) has succeeded on C, a delete in
\* url mode with the same argument u and a successful save succeeds and the
\* collection is C again, for every u, surrounding whitespace included.
C20_DeleteUndoesAdd ==
  [][\A url \in Urls :
       (JustAddedWith(url) /\ Delete(url, "url", "ok"))
         => (last'.status = "ok" /\ bookmarks' = pop(bookmarks))]_vars

\* C20 amended: the same for every url argument without surrounding
\* whitespace (the argument is its own trimmed form).
C20_DeleteUndoesAddTrimmed ==
  [][\A url \in Urls :
       (JustAddedWith(url) /\ Strip(url) = url /\ Delete(url, "url", "ok"))
         => (last'.status = "ok" /\ bookmarks' = pop(bookmarks))]_vars

\* a delete by url that removed one record and left others
C20_Witness ==
  /\ last.op = "delete"
  /\ last.mode = "url"
  /\ last.status = "ok"
  /\ last.count = 1
  /\ bookmarks # <<>>

\* the positions of b whose title contains the query case-insensitively
TitleHits(b, query) ==
  {i \in 1..Len(b) : Contains(Lower(b[i].title), Lower(query))}

\* C15: for a query that is not blank, search in title mode prints the url
\* of the first record in insertion order whose title contains the query
\* case-insensitively and nothing else, and prints nothing when no title
\* contains it.
C15_TitleSearchFirstMatch ==
  (last.op = "search" /\ last.mode = "title" /\ Strip(last.arg) # <<>>)
    => IF TitleHits(bookmarks, last.arg) = {}
       THEN last.printed = <<>>
       ELSE \E i \in TitleHits(bookmarks, last.arg) :
              /\ \A j \in TitleHits(bookmarks, last.arg) : i <= j
              /\ last.printed = <<bookmarks[i].url>>

\* a title search over a collection in which two titles contain the query
C15_Witness ==
  /\ last.op = "search"
  /\ last.mode = "title"
  /\ Cardinality(TitleHits(bookmarks, last.arg)) >= 2
  /\ Len(last.printed) = 1

\* C16: for a query that is not blank, search in tag mode prints the titles
\* of exactly the records whose tag contains the query case-insensitively,
\* one per matching record, in insertion order.
C16_TagSearchAllMatches ==
  (last.op = "search" /\ last.mode = "tag" /\ Strip(last.arg) # <<>>)
    => LET hits == SelectSeq(bookmarks, LAMBDA bookmark :
                     Contains(Lower(bookmark.tag), Lower(last.arg)))
       IN last.printed = [n \in 1..Len(hits) |-> hits[n].title]

\* a tag search that printed two titles and left a record out
C16_Witness ==
  /\ last.op = "search"
  /\ last.mode = "tag"
  /\ Len(last.printed) = 2
  /\ Len(bookmarks) = 3

\* C17: list with a filter on title or tag, the empty string included, shows
\* exactly the records whose field equals the value case-insensitively, in
\* insertion order.
C17_ListFilterExact ==
  (last.op = "list" /\ last.mode # "none")
    => last.printed =
         SelectSeq(bookmarks, LAMBDA bookmark :
           IF last.mode = "title"
           THEN Lower(bookmark.title) = Lower(last.arg)
           ELSE Lower(bookmark.tag) = Lower(last.arg))

\* the strings of the sequence, as a set
Range(s) == {s[i] : i \in 1..Len(s)}

\* the lines are in strictly ascending order and are the values of the set
SortedSetOf(lines, values) ==
  /\ Range(lines) = values
  /\ \A i \in 1..(Len(lines) - 1) : StrLess(lines[i], lines[i + 1])

\* C18: for a non-empty collection list_tags (list_titles) prints each
\* distinct tag (title) once, values that differ in case being distinct, in
\* ascending case-sensitive order; for the empty collection it reports that
\* there are no bookmarks.
C18_TagsSortedUnique ==
  /\ (last.op \in {"tags", "titles"} /\ bookmarks = <<>>)
       => (last.status = "NoBookmarks" /\ last.printed = <<>>)
  /\ (last.op = "tags" /\ bookmarks # <<>>)
       => /\ last.status = "ok"
          /\ SortedSetOf(last.printed,
                         {bookmarks[i].tag : i \in 1..Len(bookmarks)})
  /\ (last.op = "titles" /\ bookmarks # <<>>)
       => /\ last.status = "ok"
          /\ SortedSetOf(last.printed,
                         {bookmarks[i].title : i \in 1..Len(bookmarks)})

\* list_tags over the tags b, a, B printed B, a, b
C18_Witness ==
  /\ last.op = "tags"
  /\ Len(bookmarks) = 3
  /\ bookmarks[1].tag = <<"b">>
  /\ bookmarks[2].tag = <<"a">>
  /\ bookmarks[3].tag = <<"B">>
  /\ last.printed = << <<"B">>, <<"a">>, <<"b">> >>

\* the process was interrupted while the command ran
Interrupted(l) == l.event \in {"interrupt_before", "interrupt_in_save"}

\* C11: when the process is interrupted during an add or delete command,
\* the backing file afterwards is what it was before the command or holds
\* the complete collection the command was saving, never a partial text.
C11_NoPartialSave ==
  [][(last'.op \in {"add", "delete"} /\ Interrupted(last'))
       => (file' = file \/ file' = CompleteFile(bookmarks'))]_vars

\* C12: when the backing file is absent, unreadable or not valid structured
\* data, load lets no exception escape and yields the empty collection, with
\* a diagnostic exactly when the file is present; and the file is left as it
\* is unless the command saves successfully.
C12_LoadDegradesGracefully ==
  [][(last'.op # "init" /\ file.state # "complete")
       => /\ last'.status # "LoadCrash"
          /\ load_bookmarks(file) = <<>>
          /\ last'.diag <=> (file.state # "absent")
          /\ (file.state # "absent" /\ last'.save # "ok") => file' = file]_vars

\* the statuses of the ordinary command-level failures
OrdinaryFailures ==
  {"InvalidUrl", "DuplicateUrl", "EmptyTitle", "EmptyTag", "EmptyQuery",
   "EmptyIdentifier", "NotFound", "SaveFailure"}

\* C13: the exit code of a command is non-zero exactly when the command was
\* interrupted or an unexpected error occurred; every ordinary failure ends
\* with exit code zero.
C13_ExitCode ==
  last.op # "init"
    => /\ last.exit # 0 <=>
            (Interrupted(last) \/ last.event = "error"
               \/ last.status = "LoadCrash")
       /\ last.status \in OrdinaryFailures => last.exit = 0

\* a command whose save failed ended with exit code zero
C13_Witness ==
  /\ last.op = "delete"
  /\ last.status = "SaveFailure"
  /\ last.exit = 0

\* C14: a command that runs to its end invokes exactly one Store operation.
C14_OneStoreOperation ==
  (last.op # "init" /\ last.event = "none" /\ last.status # "LoadCrash")
    => last.store_ops = 1

====
